---------------------------- MODULE Spec2Model ----------------------------
(***************************************************************************)
(* A model of ipo_gmp_telegram.py: one run of main() over a fetched page,  *)
(* the column resolver ci_col, the field normalizers (parse_date_flexible, *)
(* parse_size_to_cr, parse_gmp_field), normalize_df, filter_relevant,      *)
(* format_message_html and send_telegram_message.                          *)
(*                                                                         *)
(* Text is a sequence of one-character strings.  A table cell is a record  *)
(* with a kind k: "nan" (pandas NaN), "text" (free text s), "date" (a      *)
(* day/month[/year] spelling), "size" (a numeral with a unit) or "gmp" (a  *)
(* premium spelling).  A DataFrame is [columns, rows]: columns is a        *)
(* sequence of [h |-> header, f |-> key] and every row maps each key f to  *)
(* the cell of that column.                                                *)
(*                                                                         *)
(* Spec is a run of main(); SpecCol applies ci_col and safe_col to a frame *)
(* as normalize_df does; SpecDate applies parse_date_flexible to a cell.   *)
(***************************************************************************)
EXTENDS Integers, Sequences, FiniteSets, TLC

VARIABLES
    \* ---- one run of main() ----
    pc,           \* position of main()
    today,        \* datetime.date.today(), as <<year, month, day>>
    BOT_TOKEN,    \* TRUE iff BOT_TOKEN and CHAT_ID are both set in the environment
    html_text,    \* the fetched page: the sequence of its <table> elements
    dfs,          \* find_and_parse_tables(html_text)
    best,         \* the DataFrame chosen by main()
    df_std,       \* normalize_df(best)
    df_filtered,  \* filter_relevant(df_std)
    msg,          \* format_message_html(df_filtered)
    posts,        \* number of requests.post calls made by send_telegram_message
    ok,           \* what send_telegram_message gave its caller
    exit_code,    \* how the process ended
    printed,      \* the last line main() printed about the outcome
    \* ---- the column resolver on its own ----
    df,           \* a DataFrame handed to ci_col / safe_col
    field,        \* the canonical field being resolved
    col,          \* ci_col(df, candidates of field)
    series,       \* safe_col(df, col)
    \* ---- the date parser on its own ----
    s,            \* the cell handed to parse_date_flexible
    dt            \* parse_date_flexible(s, today)

mainVars == <<pc, BOT_TOKEN, html_text, dfs, best, df_std, df_filtered, msg, posts, ok,
              exit_code, printed>>
colVars == <<df, field, col, series>>
dateVars == <<s, dt>>
vars == <<mainVars, today, colVars, dateVars>>

\* ------------------------------------------------------------------ bounds
MaxCols == 3
MaxRows == 3

\* ------------------------------------------------------------------- text
Upper == <<"A","B","C","D","E","F","G","H","I","J","K","L","M",
           "N","O","P","Q","R","S","T","U","V","W","X","Y","Z">>
Lowers == <<"a","b","c","d","e","f","g","h","i","j","k","l","m",
            "n","o","p","q","r","s","t","u","v","w","x","y","z">>
Digits == <<"0","1","2","3","4","5","6","7","8","9">>

\* str.lower() on one character
LowerChar(c) ==
    IF \E i \in DOMAIN Upper : Upper[i] = c
    THEN Lowers[CHOOSE i \in DOMAIN Upper : Upper[i] = c]
    ELSE c

\* str.lower()
Lower(t) == [i \in DOMAIN t |-> LowerChar(t[i])]

\* the Python test  a in b  on strings
Contains(b, a) ==
    \E i \in 0..(Len(b) - Len(a)) : SubSeq(b, i + 1, i + Len(a)) = a

IsSpace(c) == c = " "

\* str.strip()
RECURSIVE LStrip(_)
LStrip(t) == IF t # <<>> /\ IsSpace(Head(t)) THEN LStrip(Tail(t)) ELSE t
RECURSIVE RStrip(_)
RStrip(t) ==
    IF t # <<>> /\ IsSpace(t[Len(t)]) THEN RStrip(SubSeq(t, 1, Len(t) - 1)) ELSE t
Strip(t) == LStrip(RStrip(t))

\* str(n) for a natural number
RECURSIVE NatChars(_)
NatChars(n) ==
    IF n < 10 THEN <<Digits[n + 1]>>
    ELSE NatChars(n \div 10) \o <<Digits[(n % 10) + 1]>>

\* all sequences over S of length at most n
SeqsUpTo(S, n) == UNION {[1..k -> S] : k \in 0..n}

\* those without a repeated element
DistinctSeqsUpTo(S, n) ==
    {q \in SeqsUpTo(S, n) : \A i, j \in DOMAIN q : i # j => q[i] # q[j]}

None == [k |-> "None"]
Raise == [k |-> "raise"]
NaN == [k |-> "nan"]
Text(t) == [k |-> "text", s |-> t]
Blank == Text(<<>>)

\* ----------------------------------------------------------------- ci_col
\* A column header: a string, or a positional integer index (str |-> FALSE,
\* s its str() form) as pandas leaves on a table without a header row.
StrHeader(t) == [str |-> TRUE, s |-> t]
IntHeader(n) == [str |-> FALSE, s |-> NatChars(n)]

\* The alias lists of normalize_df, in the order of its seven ci_col calls
\* ("IPO_Size" is the column "IPO Size" of df_std).
Fields == <<"Name", "Open", "Close", "IPO_Size", "GMP", "Sub", "Listing">>
Candidates ==
    [f \in {Fields[i] : i \in DOMAIN Fields} |->
        CASE f = "Name" ->
               << <<"N","a","m","e">>,
                  <<"C","o","m","p","a","n","y">>,
                  <<"I","s","s","u","e"," ","N","a","m","e">> >>
          [] f = "Open" ->
               << <<"O","p","e","n">>,
                  <<"O","p","e","n","i","n","g">>,
                  <<"O","p","e","n"," ","D","a","t","e">> >>
          [] f = "Close" ->
               << <<"C","l","o","s","e">>,
                  <<"C","l","o","s","i","n","g">>,
                  <<"C","l","o","s","e"," ","D","a","t","e">> >>
          [] f = "IPO_Size" ->
               << <<"I","P","O"," ","S","i","z","e">>,
                  <<"I","s","s","u","e"," ","S","i","z","e">>,
                  <<"S","i","z","e">> >>
          [] f = "GMP" ->
               << <<"G","M","P">>,
                  <<"G","r","e","y"," ","M","a","r","k","e","t"," ","P","r","e","m","i","u","m">>,
                  <<"G","M"," ","P">> >>
          [] f = "Sub" ->
               << <<"S","u","b">>,
                  <<"S","u","b","s","c","r","i","p","t","i","o","n">>,
                  <<"S","u","b","s">> >>
          [] f = "Listing" ->
               << <<"L","i","s","t","i","n","g">>,
                  <<"L","i","s","t">>,
                  <<"S","t","a","t","u","s">> >>]

\* d[k] = v on a dict d (a function): a later put of the same key overwrites
DictPut(d, key, v) == (key :> v) @@ d

\* {c.lower(): c for c in df.columns}, over the first n columns
RECURSIVE ColsLowerUpTo(_, _)
ColsLowerUpTo(columns, n) ==
    IF n = 0 THEN << >>
    ELSE DictPut(ColsLowerUpTo(columns, n - 1), Lower(columns[n].h.s), columns[n].h)

\* a variant whose dict keeps the first column of each lowered header
ColsLower_FirstWins(columns) ==
    LET keys == {Lower(columns[i].h.s) : i \in DOMAIN columns}
        first(key) == CHOOSE i \in DOMAIN columns :
                         /\ Lower(columns[i].h.s) = key
                         /\ \A j \in 1..(i - 1) : Lower(columns[j].h.s) # key
    IN  [key \in keys |-> columns[first(key)].h]

cols_lower(columns) == ColsLowerUpTo(columns, Len(columns))

\* the first loop of ci_col: the first candidate that is a key of cols_lower
RECURSIVE ExactFrom(_, _, _)
ExactFrom(d, candidates, i) ==
    IF i > Len(candidates) THEN None
    ELSE IF Lower(candidates[i]) \in DOMAIN d THEN d[Lower(candidates[i])]
    ELSE ExactFrom(d, candidates, i + 1)

\* the second loop of ci_col: the first column containing any candidate
RECURSIVE SubstrFrom(_, _, _)
SubstrFrom(columns, candidates, i) ==
    IF i > Len(columns) THEN None
    ELSE IF \E c \in DOMAIN candidates :
               Contains(Lower(columns[i].h.s), Lower(candidates[c]))
         THEN columns[i].h
    ELSE SubstrFrom(columns, candidates, i + 1)

\* ci_col(df, candidates): a header of df, None, or Raise when c.lower() is
\* applied to a header that is not a string (AttributeError)
ci_col(frame, candidates) ==
    IF \E i \in DOMAIN frame.columns : ~frame.columns[i].h.str THEN Raise
    ELSE LET exact == ExactFrom(cols_lower(frame.columns), candidates, 1)
         IN  IF exact # None THEN exact
             ELSE SubstrFrom(frame.columns, candidates, 1)

\* the positions of the columns of frame named name
Named(frame, name) == {i \in DOMAIN frame.columns : frame.columns[i].h = name}

\* safe_col(df, name): df[name] when name is truthy and a column, else a Series of ""
\* of the length of df.  df[name] is a single column when one column bears
\* the name and a DataFrame (kind "frame") when several do.
safe_col(frame, name) ==
    IF name # None /\ name.s # << >> /\ Named(frame, name) # {}
    THEN IF Cardinality(Named(frame, name)) = 1
         THEN LET i == CHOOSE j \in Named(frame, name) : TRUE
              IN  [k |-> "series",
                   v |-> [r \in DOMAIN frame.rows |-> frame.rows[r][frame.columns[i].f]]]
         ELSE [k |-> "frame"]
    ELSE [k |-> "series", v |-> [r \in DOMAIN frame.rows |-> Blank]]

\* ------------------------------------------------------------------ dates
\* A calendar date is <<year, month, day>>.
MonthName ==
    << <<"J","a","n","u","a","r","y">>,
       <<"F","e","b","r","u","a","r","y">>,
       <<"M","a","r","c","h">>,
       <<"A","p","r","i","l">>,
       <<"M","a","y">>,
       <<"J","u","n","e">>,
       <<"J","u","l","y">>,
       <<"A","u","g","u","s","t">>,
       <<"S","e","p","t","e","m","b","e","r">>,
       <<"O","c","t","o","b","e","r">>,
       <<"N","o","v","e","m","b","e","r">>,
       <<"D","e","c","e","m","b","e","r">> >>
MonthAbbr == [m \in DOMAIN MonthName |-> SubSeq(MonthName[m], 1, 3)]

IsLeap(y) == y % 4 = 0 /\ (y % 100 # 0 \/ y % 400 = 0)
DaysIn(y, m) ==
    IF m = 2 THEN (IF IsLeap(y) THEN 29 ELSE 28)
    ELSE IF m \in {4, 6, 9, 11} THEN 30 ELSE 31
ValidDate(y, m, d) == m \in 1..12 /\ d >= 1 /\ d <= DaysIn(y, m)

RECURSIVE DaysBeforeMonth(_, _)
DaysBeforeMonth(y, m) ==
    IF m = 1 THEN 0 ELSE DaysBeforeMonth(y, m - 1) + DaysIn(y, m - 1)

\* date.toordinal(): what date comparison and timedelta arithmetic go by
Ord(date) ==
    LET y == date[1] - 1
    IN  y * 365 + (y \div 4) - (y \div 100) + (y \div 400)
        + DaysBeforeMonth(date[1], date[2]) + date[3]

\* A date spelling: day d as written, separator sep, month mon written in
\* full (full = TRUE) or as its three-letter abbreviation, and a year part
\* yf: "none", "Y" (four digits, y) or "y" (two digits, y).  The same
\* separator stands between month and year.
DateCell(d, sep, mon, full, yf, y) ==
    [k |-> "date", d |-> d, sep |-> sep, mon |-> mon, full |-> full, yf |-> yf, y |-> y]

MonthText(c) == IF c.full THEN MonthName[c.mon] ELSE MonthAbbr[c.mon]

\* the text matches %b (an abbreviated month name) / %B (a full month name)
MatchesAbbr(c) == MonthText(c) = MonthAbbr[c.mon]
MatchesFull(c) == MonthText(c) = MonthName[c.mon]

\* time.strptime's century rule for %y
YearOf2(y) == IF y <= 68 THEN 2000 + y ELSE 1900 + y

\* the year datetime.strptime gives a string without a year
StrptimeDefaultYear == 1900

\* datetime.datetime.strptime(s, p) for the six patterns of the loop, p given
\* by its separator and its year directive; None stands for ValueError
Strptime(c, psep, pyf) ==
    LET year == IF pyf = "Y" THEN c.y
                ELSE IF pyf = "y" THEN YearOf2(c.y)
                ELSE StrptimeDefaultYear
    IN  IF /\ c.sep = psep
           /\ c.yf = pyf
           /\ MatchesAbbr(c)
           /\ ValidDate(year, c.mon, c.d)
        THEN [k |-> "D", ymd |-> <<year, c.mon, c.d>>]
        ELSE None

\* patterns = ["%d-%b-%Y", "%d-%b-%y", "%d-%b", "%d %b %Y", "%d %b %y", "%d %b"]
patterns ==
    << <<"-", "Y">>, <<"-", "y">>, <<"-", "none">>,
       <<" ", "Y">>, <<" ", "y">>, <<" ", "none">> >>

\* dt.replace(year=...)
ReplaceYear(r, y) == [k |-> "D", ymd |-> <<y, r.ymd[2], r.ymd[3]>>]

RECURSIVE PatternLoop(_, _, _)
PatternLoop(c, tdy, i) ==
    IF i > Len(patterns) THEN None
    ELSE LET r == Strptime(c, patterns[i][1], patterns[i][2])
         IN  IF r # None
             THEN (IF patterns[i][2] = "none" THEN ReplaceYear(r, tdy[1]) ELSE r)
             ELSE PatternLoop(c, tdy, i + 1)

\* strptime(parts, "%d %B"), then replace(year=today.year)
FullMonthTry(c, tdy) ==
    IF /\ c.sep = " "
       /\ c.yf = "none"
       /\ MatchesFull(c)
       /\ ValidDate(StrptimeDefaultYear, c.mon, c.d)
    THEN [k |-> "D", ymd |-> <<tdy[1], c.mon, c.d>>]
    ELSE None

\* the regex (\d{1,2})\s*[-/ ]\s*([A-Za-z]{3,}) finds the day and the month
\* word of every date spelling; strptime(f"{day} {mon} {today.year}",
\* "%d %b %Y") then takes an abbreviated month only, and the year of today
LastResort(c, tdy) ==
    IF /\ c.sep \in {"-", "/", " "}
       /\ MatchesAbbr(c)
       /\ ValidDate(tdy[1], c.mon, c.d)
    THEN [k |-> "D", ymd |-> <<tdy[1], c.mon, c.d>>]
    ELSE None

\* parse_date_flexible(s, today): a date [k |-> "D", ymd] or None.  A NaN,
\* a blank text, and any cell that is not a date spelling (free text, a
\* size, a premium: no pattern and no month word matches) give None.
parse_date_flexible(c, tdy) ==
    IF c.k # "date" THEN None
    ELSE LET a == PatternLoop(c, tdy, 1)
             b == FullMonthTry(c, tdy)
         IN  IF a # None THEN a
             ELSE IF b # None THEN b
             ELSE LastResort(c, tdy)

\* ------------------------------------------------------- size and premium
\* A size spelling: the numeral n followed by unit "Cr", "Lakh" or "" (a
\* bare number).  Parsed sizes are counted in hundredths of a Crore (Lakh),
\* which is exact for the numerals used here.
SizeCell(n, unit) == [k |-> "size", n |-> n, unit |-> unit]
Dash == Text(<<"-">>)

\* the heuristic threshold of parse_size_to_cr
RupeeThreshold == 1000

\* parse_size_to_cr(s): [k |-> "num", v |-> hundredths of a Crore] or None
parse_size_to_cr(c) ==
    IF c.k = "size"
    THEN IF c.unit = "Cr" THEN [k |-> "num", v |-> c.n * 100]
         ELSE IF c.unit = "Lakh" THEN [k |-> "num", v |-> c.n]
         ELSE IF c.n > RupeeThreshold
              THEN [k |-> "num", v |-> c.n \div 100000]
              ELSE [k |-> "num", v |-> c.n * 100]
    ELSE None

\* A premium spelling: "RUPEE amt (pct%)"; amt or pct is -1 when not written.
\* "RUPEE" stands for the one-character currency marker.
GmpCell(amt, pct) == [k |-> "gmp", amt |-> amt, pct |-> pct]

\* parse_gmp_field(s): the display text
parse_gmp_field(c) ==
    LET rupee_disp == IF c.k = "gmp" /\ c.amt >= 0
                      THEN <<"RUPEE">> \o NatChars(c.amt)
                      ELSE <<"RUPEE", "-", "-">>
        percent_disp == IF c.k = "gmp" /\ c.pct >= 0
                        THEN <<"(">> \o NatChars(c.pct) \o <<"%", ")">>
                        ELSE <<"(", "0", ".", "0", "0", "%", ")">>
    IN  rupee_disp \o <<" ">> \o percent_disp

\* str(x) of a cell
Str(c) ==
    CASE c.k = "text" -> c.s
      [] c.k = "nan" -> <<"n", "a", "n">>
      [] c.k = "date" ->
            NatChars(c.d) \o <<c.sep>> \o MonthText(c)
            \o (IF c.yf = "none" THEN <<>> ELSE <<c.sep>> \o NatChars(c.y))
      [] c.k = "size" ->
            NatChars(c.n) \o (IF c.unit = "" THEN <<>> ELSE <<" ">> \o
                (IF c.unit = "Cr" THEN <<"C", "r">> ELSE <<"L", "a", "k", "h">>))
      [] c.k = "gmp" ->
            (IF c.amt >= 0 THEN <<"RUPEE", " ">> \o NatChars(c.amt) \o <<" ">> ELSE <<>>)
            \o (IF c.pct >= 0 THEN <<"(">> \o NatChars(c.pct) \o <<"%", ")">> ELSE <<>>)

\* ------------------------------------------------- find_and_parse_tables
\* A <table> element: layout gives, per column, the header text h and the
\* key f of the row cells below it; header says whether the element has a
\* header line; rows are the data lines (every line has one cell per
\* column, so the padding of short lines changes nothing); read_html says
\* whether pandas.read_html accepts the element or raises ValueError.
\* Cells of an element are texts: none is NaN.
Lines(t) ==
    (IF t.header THEN << [i \in DOMAIN t.layout |-> Text(t.layout[i].h)] >> ELSE << >>)
    \o [r \in DOMAIN t.rows |-> [i \in DOMAIN t.layout |-> t.rows[r][t.layout[i].f]]]

\* pandas.read_html on one element: the header line names the columns, a
\* table without one keeps positional integer columns; an empty cell is NaN
ReadHtml(t) ==
    [columns |-> [i \in DOMAIN t.layout |->
                     [h |-> IF t.header THEN StrHeader(t.layout[i].h) ELSE IntHeader(i - 1),
                      f |-> i]],
     rows |-> [r \in DOMAIN t.rows |->
                 [i \in DOMAIN t.layout |->
                     LET c == t.rows[r][t.layout[i].f]
                     IN  IF Strip(Str(c)) = <<>> THEN NaN ELSE c]]]

\* td.get_text(strip=True) keeps the cell's text; an empty cell stays ""
GetText(c) == IF Strip(Str(c)) = <<>> THEN Blank ELSE c

\* the manual fallback: the first line names the columns when there are at
\* least two lines, else pd.DataFrame(norm) keeps positional columns
ManualParse(t) ==
    LET norm == [r \in DOMAIN Lines(t) |->
                    [i \in DOMAIN t.layout |-> GetText(Lines(t)[r][i])]]
    IN  IF Len(norm) >= 2
        THEN [columns |-> [i \in DOMAIN t.layout |->
                              [h |-> StrHeader(Str(norm[1][i])), f |-> i]],
              rows |-> Tail(norm)]
        ELSE [columns |-> [i \in DOMAIN t.layout |-> [h |-> IntHeader(i - 1), f |-> i]],
              rows |-> norm]

\* the frames one element adds to dfs
ParseOne(t) ==
    IF t.read_html THEN << ReadHtml(t) >>
    ELSE IF Lines(t) # << >> THEN << ManualParse(t) >>
    ELSE << >>

RECURSIVE ParseFrom(_, _)
ParseFrom(tables, i) ==
    IF i > Len(tables) THEN << >>
    ELSE ParseOne(tables[i]) \o ParseFrom(tables, i + 1)

find_and_parse_tables(tables) == ParseFrom(tables, 1)

\* --------------------------------------------------- main: cleanup, choice
\* d.dropna(how="all", axis=1): the columns with a cell that is not NaN
KeepCols(d) ==
    SelectSeq(d.columns, LAMBDA c : \E r \in DOMAIN d.rows : d.rows[r][c.f] # NaN)
DropNaCols(d) == [columns |-> KeepCols(d), rows |-> d.rows]

\* d.dropna(how="all", axis=0)
DropNaRows(d) ==
    [columns |-> d.columns,
     rows |-> SelectSeq(d.rows,
                 LAMBDA row : \E i \in DOMAIN d.columns : row[d.columns[i].f] # NaN)]

\* DataFrame.empty: some axis has length 0
Empty(d) == d.columns = << >> \/ d.rows = << >>

Shape(d) == <<Len(d.rows), Len(d.columns)>>

dfs_clean(frames) ==
    LET kept == SelectSeq(frames, LAMBDA d : ~Empty(DropNaCols(d)))
    IN  [i \in DOMAIN kept |-> DropNaRows(DropNaCols(kept[i]))]

\* max(dfs_clean, key=rows*columns): the first frame with the largest product
Best(frames) ==
    LET size(d) == Shape(d)[1] * Shape(d)[2]
        i == CHOOSE j \in DOMAIN frames :
                /\ \A n \in DOMAIN frames : size(frames[n]) <= size(frames[j])
                /\ \A n \in 1..(j - 1) : size(frames[n]) < size(frames[j])
    IN  frames[i]

\* ----------------------------------------------------------- normalize_df
FieldSet == {Fields[i] : i \in DOMAIN Fields}

\* the seven ci_col calls
Resolve(frame) ==
    [Name |-> ci_col(frame, Candidates["Name"]),
     Open |-> ci_col(frame, Candidates["Open"]),
     Close |-> ci_col(frame, Candidates["Close"]),
     IPO_Size |-> ci_col(frame, Candidates["IPO_Size"]),
     GMP |-> ci_col(frame, Candidates["GMP"]),
     Sub |-> ci_col(frame, Candidates["Sub"]),
     Listing |-> ci_col(frame, Candidates["Listing"])]

\* safe_col of each resolved name
SafeCols(frame, res) ==
    [Name |-> safe_col(frame, res.Name),
     Open |-> safe_col(frame, res.Open),
     Close |-> safe_col(frame, res.Close),
     IPO_Size |-> safe_col(frame, res.IPO_Size),
     GMP |-> safe_col(frame, res.GMP),
     Sub |-> safe_col(frame, res.Sub),
     Listing |-> safe_col(frame, res.Listing)]

\* normalize_df raises: a ci_col call raises, or df[name] is a DataFrame of
\* several columns, which cannot be assigned to one column of df_std
NormalizeRaises(frame) ==
    \E res \in {Resolve(frame)} :
        \/ \E f \in FieldSet : res[f] = Raise
        \/ \E f \in FieldSet : safe_col(frame, res[f]).k = "frame"

\* Series.astype(str).str.replace(r"\s*U$", "", regex=True).str.strip()
CleanName(c) ==
    LET t == Str(c)
    IN  IF t # << >> /\ t[Len(t)] = "U"
        THEN Strip(RStrip(SubSeq(t, 1, Len(t) - 1)))
        ELSE Strip(t)

\* "CROSS" stands for the one-character closed/rejected glyph
IsSME(name) == Contains(Lower(name), <<"s", "m", "e">>)
IsClosed(c) == Contains(Str(c), <<"CROSS">>)

\* DataFrame.fillna(""): NaN and None become ""
FillNa(x) == IF x = NaN \/ x = None THEN Blank ELSE x

\* the row of df_std built from row r of the frame, before the sort
StdRow(cols, r, tdy) ==
    [Name |-> CleanName(cols.Name.v[r]),
     Open |-> FillNa(cols.Open.v[r]),
     Close |-> FillNa(cols.Close.v[r]),
     IPO_Size |-> FillNa(cols.IPO_Size.v[r]),
     GMP |-> FillNa(cols.GMP.v[r]),
     Sub |-> FillNa(cols.Sub.v[r]),
     Listing |-> FillNa(cols.Listing.v[r]),
     Close_date_parsed |-> FillNa(parse_date_flexible(cols.Close.v[r], tdy)),
     Open_date_parsed |-> FillNa(parse_date_flexible(cols.Open.v[r], tdy)),
     IPO_Size_num |-> FillNa(parse_size_to_cr(cols.IPO_Size.v[r])),
     GMP_display |-> parse_gmp_field(cols.GMP.v[r]),
     row |-> r]

\* the rows of df_std in table order, then the SME and the listing exclusions
Excluded(rows) ==
    SelectSeq(rows, LAMBDA x : ~IsSME(x.Name) /\ ~IsClosed(x.Listing))

StdRows(frame, tdy) ==
    CHOOSE rows \in
        {Excluded([r \in DOMAIN frame.rows |-> StdRow(cols, r, tdy)]) :
            cols \in {SafeCols(frame, res) : res \in {Resolve(frame)}}} : TRUE

\* the IPO_Size_sort column: float(x) of every IPO_Size_num; after
\* fillna("") an absent size is "", float("") raises ValueError inside
\* apply, and the except branch sets the whole column to 0.0
IPO_Size_sort(recs, i) ==
    IF \E j \in DOMAIN recs : recs[j].IPO_Size_num = Blank
    THEN 0
    ELSE recs[i].IPO_Size_num.v

\* a variant that sorts ascending
SortOrders_Ascending(recs) ==
    {p \in [DOMAIN recs -> DOMAIN recs] :
        /\ \A i, j \in DOMAIN recs : i # j => p[i] # p[j]
        /\ \A i \in DOMAIN recs : \A j \in DOMAIN recs :
              i < j => IPO_Size_sort(recs, p[i]) <= IPO_Size_sort(recs, p[j])}

\* sort_values(by="IPO_Size_sort", ascending=False) with the default
\* kind="quicksort", which is not stable: any order of the rows with
\* non-increasing keys
SortOrders(recs) ==
    {p \in [DOMAIN recs -> DOMAIN recs] :
        /\ \A i, j \in DOMAIN recs : i # j => p[i] # p[j]
        /\ \A i \in DOMAIN recs : \A j \in DOMAIN recs :
              i < j => IPO_Size_sort(recs, p[i]) >= IPO_Size_sort(recs, p[j])}

\* record x of df_std with its sort key and Rank = index + 1
Ranked(recs, p, i) ==
    [Name |-> recs[p[i]].Name, Open |-> recs[p[i]].Open, Close |-> recs[p[i]].Close,
     IPO_Size |-> recs[p[i]].IPO_Size, GMP |-> recs[p[i]].GMP, Sub |-> recs[p[i]].Sub,
     Listing |-> recs[p[i]].Listing,
     Close_date_parsed |-> recs[p[i]].Close_date_parsed,
     Open_date_parsed |-> recs[p[i]].Open_date_parsed,
     IPO_Size_num |-> recs[p[i]].IPO_Size_num,
     GMP_display |-> recs[p[i]].GMP_display,
     row |-> recs[p[i]].row,
     IPO_Size_sort |-> IPO_Size_sort(recs, p[i]),
     Rank |-> i]

\* the values normalize_df(frame) can return
normalize_df(frame, tdy) ==
    UNION {{[i \in DOMAIN recs |-> Ranked(recs, p, i)] : p \in SortOrders(recs)} :
              recs \in {StdRows(frame, tdy)}}

\* -------------------------------------------------------- filter_relevant
\* today + datetime.timedelta(days=5)
FutureLimitDays == 5

\* a variant whose upcoming test is d >= today
cond_open_future_Inclusive(x, tdy) ==
    x.Open_date_parsed.k = "D" /\ Ord(x.Open_date_parsed.ymd) >= Ord(tdy)

cond_close(x, tdy) ==
    /\ x.Close_date_parsed.k = "D"
    /\ Ord(tdy) - 1 <= Ord(x.Close_date_parsed.ymd)
    /\ Ord(x.Close_date_parsed.ymd) <= Ord(tdy) + FutureLimitDays

cond_open_future(x, tdy) ==
    x.Open_date_parsed.k = "D" /\ Ord(x.Open_date_parsed.ymd) > Ord(tdy)

\* df[cond_close | cond_open_future].reset_index(drop=True)
filter_relevant(d, tdy) ==
    SelectSeq(d, LAMBDA x : cond_close(x, tdy) \/ cond_open_future(x, tdy))

\* ---------------------------------------------------- format_message_html
\* html.escape(s): one entity per special character
EscapeChar(c) ==
    CASE c = "&" -> "&amp;"
      [] c = "<" -> "&lt;"
      [] c = ">" -> "&gt;"
      [] c = "\"" -> "&quot;"
      [] c = "'" -> "&#x27;"
      [] OTHER -> c
escape(t) == [i \in DOMAIN t |-> EscapeChar(t[i])]

\* A message is a sequence of lines, a line a sequence of pieces: Lit is
\* text of the formatter's own f-string, Val a value interpolated into it.
Lit(str) == [own |-> TRUE, t |-> <<str>>]
Val(t) == [own |-> FALSE, t |-> t]

Pad2(n) == IF n < 10 THEN <<"0">> \o NatChars(n) ELSE NatChars(n)
Pad3(n) == IF n < 100 THEN <<"0">> \o Pad2(n) ELSE NatChars(n)

\* the "," grouping of the format spec ",.2f"
RECURSIVE Grouped(_)
Grouped(n) ==
    IF n < 1000 THEN NatChars(n)
    ELSE Grouped(n \div 1000) \o <<",">> \o Pad3(n % 1000)

\* f"{size:,.2f} Cr" for a size in hundredths of a Crore
SizeDisp(v) == Grouped(v \div 100) \o <<".">> \o Pad2(v % 100) \o <<" ", "C", "r">>

\* today.strftime("%d-%b-%Y")
today_str(tdy) == Pad2(tdy[3]) \o <<"-">> \o MonthAbbr[tdy[2]] \o <<"-">> \o NatChars(tdy[1])

OrDashes(t) == IF t = << >> THEN <<"-", "-">> ELSE t

HeaderLine(tdy) == << Lit("<b>IPO Updates - "), Val(escape(today_str(tdy))), Lit("</b>") >>

SummaryLine(x) ==
    << Val(NatChars(x.Rank)), Lit(". <b>"), Val(escape(x.Name)), Lit("</b> (Opens: "),
       Val(escape(Str(x.Open))), Lit(", Closes: "), Val(escape(Str(x.Close))), Lit(")") >>

\* the five lines of one record of the Details section; the size is the
\* formatted number when IPO_Size_num is a number, else it is
\* str(row.get("IPO Size", "") or "--"), which is not passed to html.escape
DetailLines(x) ==
    << << Lit("<b>"), Val(escape(x.Name)), Lit("</b>") >>,
       << Lit("Issue Size: "),
          Val(IF x.IPO_Size_num # Blank THEN SizeDisp(x.IPO_Size_num.v)
              ELSE OrDashes(Str(x.IPO_Size))) >>,
       << Lit("GMP: "), Val(escape(x.GMP_display)), Lit(" | Sub: "),
          Val(OrDashes(escape(Str(x.Sub)))) >>,
       << Val(escape(Str(x.Open))), Lit(" - "), Val(escape(Str(x.Close))),
          Lit(" | Listing: "), Val(OrDashes(escape(Str(x.Listing)))) >>,
       << >> >>

RECURSIVE Flatten(_)
Flatten(ss) == IF ss = << >> THEN << >> ELSE Head(ss) \o Flatten(Tail(ss))

\* "\n".join(lines).strip(): the trailing blank line goes
RECURSIVE StripLines(_)
StripLines(lines) ==
    IF lines # << >> /\ lines[Len(lines)] = << >>
    THEN StripLines(SubSeq(lines, 1, Len(lines) - 1))
    ELSE lines

format_message_html(d, tdy) ==
    IF d = << >>
    THEN << HeaderLine(tdy), << >>, << Lit("No upcoming/current IPOs found.") >> >>
    ELSE StripLines(
            << HeaderLine(tdy), << >>, << Lit("<b>Upcoming / Current IPOs</b>") >> >>
            \o [i \in DOMAIN d |-> SummaryLine(d[i])]
            \o << << >>, << Lit("<b>Details</b>") >> >>
            \o Flatten([i \in DOMAIN d |-> DetailLines(d[i])]))

\* ------------------------------------------------------------ the inputs
\* The days a run may start on.
Todays == { <<2024, 2, 27>>, <<2024, 12, 31>> }

NextDay(tdy) ==
    IF tdy[3] < DaysIn(tdy[1], tdy[2]) THEN <<tdy[1], tdy[2], tdy[3] + 1>>
    ELSE IF tdy[2] < 12 THEN <<tdy[1], tdy[2] + 1, 1>>
    ELSE <<tdy[1] + 1, 1, 1>>

\* Table lines: the cells of one IPO, by key.  No line is blank in every
\* cell, so dropna(how="all", axis=0) leaves the index 0..n-1 of the frame.
RowPool ==
    { [name |-> Text(<<"A","&","B">>),
       open |-> DateCell(20, "-", 2, FALSE, "none", 0),
       close |-> DateCell(4, "-", 3, FALSE, "none", 0),
       size |-> SizeCell(100, "Cr"), gmp |-> GmpCell(5, 1),
       sub |-> Text(<<"2","x">>), listing |-> Blank],
      [name |-> Text(<<"Z","e","d"," ","U">>),
       open |-> DateCell(20, " ", 2, FALSE, "Y", 2024),
       close |-> DateCell(26, " ", 2, FALSE, "Y", 2024),
       size |-> SizeCell(90, ""), gmp |-> GmpCell(100, 20),
       sub |-> Blank, listing |-> Text(<<"<","i",">">>)],
      [name |-> Text(<<"K","a","y">>),
       open |-> Blank,
       close |-> DateCell(29, "-", 2, FALSE, "none", 0),
       size |-> Text(<<"<","T","B","A",">">>), gmp |-> Dash,
       sub |-> Text(<<"'","n","a","'">>), listing |-> Blank],
      [name |-> Text(<<"Q">>),
       open |-> DateCell(1, "-", 1, FALSE, "y", 25),
       close |-> DateCell(6, " ", 1, TRUE, "none", 0),
       size |-> SizeCell(25000000, ""), gmp |-> GmpCell(-1, 3),
       sub |-> Blank, listing |-> Blank],
      [name |-> Text(<<"S","h","u","t">>),
       open |-> Blank,
       close |-> DateCell(29, "-", 2, FALSE, "none", 0),
       size |-> SizeCell(250, "Lakh"), gmp |-> GmpCell(2, 2),
       sub |-> Blank, listing |-> Text(<<"CROSS">>)],
      [name |-> Text(<<"T","i","n","y"," ","S","M","E">>),
       open |-> Blank,
       close |-> DateCell(28, " ", 2, FALSE, "none", 0),
       size |-> SizeCell(500, "Lakh"), gmp |-> GmpCell(7, -1),
       sub |-> Blank, listing |-> Blank] }

BlankRow ==
    [name |-> Blank, open |-> Blank, close |-> Blank, size |-> Blank, gmp |-> Blank,
     sub |-> Blank, listing |-> Blank]

\* Header lines.
FullLayout ==
    << [h |-> <<"N","a","m","e">>, f |-> "name"],
       [h |-> <<"O","p","e","n">>, f |-> "open"],
       [h |-> <<"C","l","o","s","e">>, f |-> "close"],
       [h |-> <<"I","P","O"," ","S","i","z","e">>, f |-> "size"],
       [h |-> <<"G","M","P">>, f |-> "gmp"],
       [h |-> <<"S","u","b">>, f |-> "sub"],
       [h |-> <<"L","i","s","t","i","n","g">>, f |-> "listing"] >>
ScenarioLayout ==
    << [h |-> <<"C","o","m","p","a","n","y">>, f |-> "name"],
       [h |-> <<"I","s","s","u","e"," ","S","i","z","e">>, f |-> "size"],
       [h |-> <<"G","M","P">>, f |-> "gmp"],
       [h |-> <<"O","p","e","n"," ","D","a","t","e">>, f |-> "open"],
       [h |-> <<"C","l","o","s","e"," ","D","a","t","e">>, f |-> "close"] >>
NameLayout ==
    << [h |-> <<"N","a","m","e">>, f |-> "name"] >>

Table(layout, header, rows, read_html) ==
    [layout |-> layout, header |-> header, rows |-> rows, read_html |-> read_html]

\* the tables with a header line that read_html accepts
PlainTables ==
    {Table(l, TRUE, rows, TRUE) :
        l \in {FullLayout, ScenarioLayout}, rows \in DistinctSeqsUpTo(RowPool, MaxRows)}

\* short tables in every combination of header line and parser
OddTables ==
    {Table(l, h, rows, rh) :
        l \in {ScenarioLayout, NameLayout}, h \in BOOLEAN, rh \in BOOLEAN,
        rows \in SeqsUpTo({x \in RowPool : x.sub # Blank}, 2)}

\* placeholders: a table of blank cells only
Placeholders ==
    {Table(NameLayout, FALSE, <<BlankRow>>, TRUE),
     Table(ScenarioLayout, TRUE, <<BlankRow, BlankRow>>, TRUE)}

Tables == PlainTables \cup OddTables \cup Placeholders

\* a page: no table, one table, or a placeholder followed by a short table
Pages ==
    {<< >>} \cup {<<t>> : t \in Tables}
    \cup {<<p, t>> : p \in Placeholders, t \in OddTables \cup Placeholders}

\* ------------------------------------------------------------------- main
NoFrame == [columns |-> << >>, rows |-> << >>]

ColIdle == df = NoFrame /\ field = "" /\ col = None /\ series = None
DateIdle == s = NaN /\ dt = None

Init ==
    /\ pc = "fetch"
    /\ today \in Todays
    /\ BOT_TOKEN \in BOOLEAN
    /\ html_text = << >>
    /\ dfs = << >>
    /\ best = NoFrame
    /\ df_std = << >>
    /\ df_filtered = << >>
    /\ msg = << >>
    /\ posts = 0
    /\ ok = "unset"
    /\ exit_code = "running"
    /\ printed = ""
    /\ ColIdle
    /\ DateIdle

\* sys.exit(code) after printing line
Exit(code, line) ==
    /\ pc' = "done"
    /\ exit_code' = code
    /\ printed' = line

\* fetch_html returns the page
FetchOk ==
    /\ pc = "fetch"
    /\ \E page \in Pages : html_text' = page
    /\ pc' = "parse"
    /\ UNCHANGED <<today, BOT_TOKEN, dfs, best, df_std, df_filtered, msg, posts, ok,
                   exit_code, printed, colVars, dateVars>>

\* fetch_html raises (a non-2xx status, a timeout): main exits with 1
FetchFails ==
    /\ pc = "fetch"
    /\ Exit("1", "Failed to fetch")
    /\ UNCHANGED <<today, BOT_TOKEN, html_text, dfs, best, df_std, df_filtered, msg,
                   posts, ok, colVars, dateVars>>

\* dfs = find_and_parse_tables(html_text); if not dfs: sys.exit(0)
ParseTables ==
    /\ pc = "parse"
    /\ dfs' = find_and_parse_tables(html_text)
    /\ IF dfs' = << >>
       THEN Exit("0", "No tables found")
       ELSE pc' = "choose" /\ UNCHANGED <<exit_code, printed>>
    /\ UNCHANGED <<today, BOT_TOKEN, html_text, best, df_std, df_filtered, msg, posts,
                   ok, colVars, dateVars>>

\* dfs_clean; if not dfs_clean: sys.exit(0); best = max(dfs_clean, ...)
ChooseBest ==
    /\ pc = "choose"
    /\ IF dfs_clean(dfs) = << >>
       THEN Exit("0", "All empty after cleanup") /\ UNCHANGED best
       ELSE /\ best' = Best(dfs_clean(dfs))
            /\ pc' = "normalize"
            /\ UNCHANGED <<exit_code, printed>>
    /\ UNCHANGED <<today, BOT_TOKEN, html_text, dfs, df_std, df_filtered, msg, posts,
                   ok, colVars, dateVars>>

\* df_std = normalize_df(best), or sys.exit(1) when it raises
Normalize ==
    /\ pc = "normalize"
    /\ IF NormalizeRaises(best)
       THEN Exit("1", "Failed to normalize") /\ UNCHANGED df_std
       ELSE /\ \E d \in normalize_df(best, today) : df_std' = d
            /\ pc' = "filter"
            /\ UNCHANGED <<exit_code, printed>>
    /\ UNCHANGED <<today, BOT_TOKEN, html_text, dfs, best, df_filtered, msg, posts, ok,
                   colVars, dateVars>>

\* The calendar day changes between the date.today() of normalize_df and
\* the one of filter_relevant.
Midnight ==
    /\ pc = "filter"
    /\ today \in Todays
    /\ today' = NextDay(today)
    /\ UNCHANGED <<mainVars, colVars, dateVars>>

\* df_filtered = filter_relevant(df_std)
Filter ==
    /\ pc = "filter"
    /\ df_filtered' = filter_relevant(df_std, today)
    /\ pc' = "format"
    /\ UNCHANGED <<today, BOT_TOKEN, html_text, dfs, best, df_std, msg, posts, ok,
                   exit_code, printed, colVars, dateVars>>

\* msg = format_message_html(df_filtered), on either branch of main
Format ==
    /\ pc = "format"
    /\ msg' = format_message_html(df_filtered, today)
    /\ printed' = IF df_filtered = << >> THEN "No relevant IPOs" ELSE printed
    /\ pc' = "send"
    /\ UNCHANGED <<today, BOT_TOKEN, html_text, dfs, best, df_std, df_filtered, posts,
                   ok, exit_code, colVars, dateVars>>

\* main after send_telegram_message returned result: the empty summary
\* ignores it, the other branch exits with 1 on False
AfterSend(result) ==
    /\ ok' = result
    /\ pc' = "done"
    /\ exit_code' = IF df_filtered = << >> \/ result = "True" THEN "0" ELSE "1"

\* send_telegram_message without credentials: False, nothing is posted
SendNoCredentials ==
    /\ pc = "send"
    /\ ~BOT_TOKEN
    /\ AfterSend("False")
    /\ UNCHANGED <<today, BOT_TOKEN, html_text, dfs, best, df_std, df_filtered, msg,
                   posts, printed, colVars, dateVars>>

\* requests.post returns a response: True on 2xx, False otherwise
SendPost ==
    /\ pc = "send"
    /\ BOT_TOKEN
    /\ posts' = posts + 1
    /\ \E result \in {"True", "False"} : AfterSend(result)
    /\ UNCHANGED <<today, BOT_TOKEN, html_text, dfs, best, df_std, df_filtered, msg,
                   printed, colVars, dateVars>>

\* requests.post raises (timeout, connection failure): the call stands
\* outside the try, main catches nothing, the interpreter ends with a traceback
SendPostRaises ==
    /\ pc = "send"
    /\ BOT_TOKEN
    /\ posts' = posts + 1
    /\ ok' = "raised"
    /\ pc' = "done"
    /\ exit_code' = "traceback"
    /\ UNCHANGED <<today, BOT_TOKEN, html_text, dfs, best, df_std, df_filtered, msg,
                   printed, colVars, dateVars>>

Next ==
    \/ FetchOk
    \/ FetchFails
    \/ ParseTables
    \/ ChooseBest
    \/ Normalize
    \/ Midnight
    \/ Filter
    \/ Format
    \/ SendNoCredentials
    \/ SendPost
    \/ SendPostRaises

Spec == Init /\ [][Next]_vars

\* ------------------------------------------------ the resolver on its own
\* String headers a table may carry; the manual fallback of
\* find_and_parse_tables takes the first line as it stands, so a header may
\* be blank or repeated.
HeaderPool ==
    { <<"C","o","m","p","a","n","y">>,
      <<"N","a","m","e">>,
      <<"N","A","M","E">>,
      <<"S","t","o","c","k"," ","N","a","m","e">>,
      <<"O","p","e","n"," ","D","a","t","e">>,
      <<"G","M","P">>,
      << >> }

\* a frame of two data lines under the given headers; the cell of line r in
\* column i spells r and i
ColFrame(headers) ==
    [columns |-> [i \in DOMAIN headers |-> [h |-> headers[i], f |-> i]],
     rows |-> [r \in 1..2 |->
                 [i \in DOMAIN headers |-> Text(<<Digits[r + 1], Digits[i + 1]>>)]]]

ScenarioHeaders == [i \in DOMAIN ScenarioLayout |-> StrHeader(ScenarioLayout[i].h)]

\* the frames handed to ci_col: string headers, the positional integer
\* headers of a table without a header line, and the scenario's header line
ColFrames ==
    {ColFrame([i \in DOMAIN q |-> StrHeader(q[i])]) :
        q \in SeqsUpTo(HeaderPool, MaxCols) \ {<< >>}}
    \cup {ColFrame([i \in 1..n |-> IntHeader(i - 1)]) : n \in 1..MaxCols}
    \cup {ColFrame(ScenarioHeaders)}

MainIdle(at) ==
    /\ pc = at
    /\ BOT_TOKEN = FALSE
    /\ html_text = << >>
    /\ dfs = << >>
    /\ best = NoFrame
    /\ df_std = << >>
    /\ df_filtered = << >>
    /\ msg = << >>
    /\ posts = 0
    /\ ok = "unset"
    /\ exit_code = "running"
    /\ printed = ""

InitCol ==
    /\ MainIdle("ci_col")
    /\ today = <<2024, 2, 27>>
    /\ df \in ColFrames
    /\ field = ""
    /\ col = None
    /\ series = None
    /\ DateIdle

\* col_x = ci_col(df, [...]) for the field f
CiCol(f) ==
    /\ pc = "ci_col"
    /\ field = ""
    /\ field' = f
    /\ col' = ci_col(df, Candidates[f])
    /\ UNCHANGED <<mainVars, today, df, series, dateVars>>

\* df_std[f] = safe_col(df, col_x), reached when ci_col returned
SafeCol ==
    /\ pc = "ci_col"
    /\ field # ""
    /\ col # Raise
    /\ series = None
    /\ series' = safe_col(df, col)
    /\ UNCHANGED <<mainVars, today, df, field, col, dateVars>>

NextCol ==
    \/ \E f \in FieldSet : CiCol(f)
    \/ SafeCol

SpecCol == InitCol /\ [][NextCol]_vars

\* --------------------------------------------- the date parser on its own
\* the cells handed to parse_date_flexible
DateInputs ==
    {DateCell(d, sep, mon, full, yy[1], yy[2]) :
        d \in {1, 15, 29, 31}, sep \in {"-", " ", "/"}, mon \in {2, 3, 4, 5},
        full \in BOOLEAN,
        yy \in {<<"none", 0>>, <<"Y", 2023>>, <<"Y", 2024>>, <<"y", 25>>, <<"y", 99>>}}
    \cup {NaN, Blank, Text(<<"T","B","A">>)}

DateTodays == { <<2024, 2, 27>>, <<2025, 1, 1>> }

Pending == [k |-> "pending"]

InitDate ==
    /\ MainIdle("parse_date_flexible")
    /\ today \in DateTodays
    /\ ColIdle
    /\ s \in DateInputs
    /\ dt = Pending

\* dt = parse_date_flexible(s, today=today)
ParseDate ==
    /\ pc = "parse_date_flexible"
    /\ dt = Pending
    /\ dt' = parse_date_flexible(s, today)
    /\ UNCHANGED <<mainVars, today, colVars, s>>

NextDate == ParseDate

SpecDate == InitDate /\ [][NextDate]_vars

\* ============================================================= properties
\* normalize_df has returned df_std / filter_relevant has returned df_filtered
Normalized == pc \in {"filter", "format", "send"} \/ (pc = "done" /\ ok # "unset")
Filtered == pc \in {"format", "send"} \/ (pc = "done" /\ ok # "unset")

Present(x) == x.k = "D"

\* calendar order on <<year, month, day>>
Earlier(a, b) ==
    \/ a[1] < b[1]
    \/ a[1] = b[1] /\ a[2] < b[2]
    \/ a[1] = b[1] /\ a[2] = b[2] /\ a[3] < b[3]

CloseInWindow(x) ==
    Present(x.Close_date_parsed)
    /\ Ord(x.Close_date_parsed.ymd) - Ord(today) \in (0 - 1)..5
OpensLater(x) ==
    Present(x.Open_date_parsed) /\ Earlier(today, x.Open_date_parsed.ymd)

PosIn(q, x) == CHOOSE i \in DOMAIN q : q[i] = x

\* C1: filter_relevant keeps a record if and only if its parsed close date
\* is present and lies in [today-1, today+5], or its parsed open date is
\* present and later than today; a record with neither date is never kept;
\* the kept records are records of the input and stand in their input order.
C1_FilterKeepsTheRelevant ==
    Filtered =>
        /\ \A i \in DOMAIN df_std :
              (CloseInWindow(df_std[i]) \/ OpensLater(df_std[i]))
              <=> (\E j \in DOMAIN df_filtered : df_filtered[j] = df_std[i])
        /\ \A j \in DOMAIN df_filtered : \E i \in DOMAIN df_std : df_std[i] = df_filtered[j]
        /\ \A j \in DOMAIN df_filtered :
              Present(df_filtered[j].Close_date_parsed)
              \/ Present(df_filtered[j].Open_date_parsed)
        /\ \A i, j \in DOMAIN df_filtered :
              i < j => PosIn(df_std, df_filtered[i]) < PosIn(df_std, df_filtered[j])

\* C1 witness: a record is dropped, one is kept for its open date alone and
\* one for its close date alone
C1_Witness ==
    /\ Filtered
    /\ Len(df_filtered) < Len(df_std)
    /\ \E j \in DOMAIN df_filtered :
          ~CloseInWindow(df_filtered[j]) /\ OpensLater(df_filtered[j])
    /\ \E j \in DOMAIN df_filtered :
          CloseInWindow(df_filtered[j]) /\ ~Present(df_filtered[j].Open_date_parsed)

SizeOf(x) == IF x.IPO_Size_num.k = "num" THEN x.IPO_Size_num.v ELSE 0
PremiumOf(x) == IF x.GMP.k = "gmp" /\ x.GMP.amt >= 0 THEN x.GMP.amt ELSE 0
MaxOf(S) == CHOOSE m \in S : \A n \in S : n <= m
AtLeast1(n) == IF n = 0 THEN 1 ELSE n

\* 0.7 * size / max size + 0.3 * premium / max premium over the records of
\* q, times 10 * max size * max premium (a maximum of 0 counted as 1, its
\* term being 0 then)
Score(q, x) ==
    LET ms == AtLeast1(MaxOf({SizeOf(q[i]) : i \in DOMAIN q}))
        mp == AtLeast1(MaxOf({PremiumOf(q[i]) : i \in DOMAIN q}))
    IN  7 * SizeOf(x) * mp + 3 * PremiumOf(x) * ms

\* the sort key the list is ordered by
SortKey(q, x) ==
    IF \E i \in DOMAIN q : q[i].IPO_Size_num.k # "num" THEN 0 ELSE x.IPO_Size_num.v

C3_RanksConsecutive ==
    Filtered => \A i \in DOMAIN df_filtered : df_filtered[i].Rank = i

AllStr(frame) == \A i \in DOMAIN frame.columns : frame.columns[i].h.str
EqualsAlias(frame, i, a) == Lower(frame.columns[i].h.s) = Lower(a)
ContainsAlias(frame, i, cands) ==
    \E a \in DOMAIN cands : Contains(Lower(frame.columns[i].h.s), Lower(cands[a]))
Leftmost(S) == CHOOSE i \in S : \A j \in S : i <= j
Rightmost(S) == CHOOSE i \in S : \A j \in S : j <= i
BlankSeries(frame) == [k |-> "series", v |-> [r \in DOMAIN frame.rows |-> Blank]]

\* what the header line [Company, Issue Size, GMP, Open Date, Close Date]
\* resolves to, field by field
ScenarioExpected(f) ==
    CASE f = "Name" -> ScenarioHeaders[1]
      [] f = "IPO_Size" -> ScenarioHeaders[2]
      [] f = "GMP" -> ScenarioHeaders[3]
      [] f = "Open" -> ScenarioHeaders[4]
      [] f = "Close" -> ScenarioHeaders[5]
      [] OTHER -> None

ScenarioResolved ==
    (field # "" /\ [i \in DOMAIN df.columns |-> df.columns[i].h] = ScenarioHeaders) =>
        /\ col = ScenarioExpected(field)
        /\ (series # None /\ col = None) => series = BlankSeries(df)

NoDataPage ==
    \/ find_and_parse_tables(html_text) = << >>
    \/ dfs_clean(find_and_parse_tables(html_text)) = << >>
    \/ Shape(Best(dfs_clean(find_and_parse_tables(html_text)))) = <<1, 1>>

\* C5: a run over a page without a table, with only empty tables, or whose
\* largest table is a single cell never comes to call normalize_df, sends
\* nothing and ends with exit status 0.
C5_NoDataOutcome ==
    (printed # "Failed to fetch" /\ NoDataPage) =>
        /\ pc \in {"fetch", "parse", "choose", "done"}
        /\ posts = 0
        /\ pc = "done" => exit_code = "0"

\* C6: no header sequence makes the resolver raise, so no run ends as a
\* normalization failure.
C6_NoNormalizationFailure == printed # "Failed to normalize"

\* C7: a run makes at most one delivery attempt, and a failed delivery
\* reaches the caller as False, never as an exception.
C7_DeliveryFailureIsFalse == posts <= 1 /\ ok \in {"unset", "True", "False"}

HtmlSpecials == {"&", "<", ">", "\"", "'"}

\* C8: no value interpolated into the message holds one of & < > " '
\* unescaped.
C8_ValuesEscaped ==
    \A l \in DOMAIN msg : \A p \in DOMAIN msg[l] :
        ~msg[l][p].own =>
            \A n \in DOMAIN msg[l][p].t : msg[l][p].t[n] \notin HtmlSpecials

\* the year a date spelling states
StatedYear(c) == IF c.yf = "Y" THEN c.y ELSE YearOf2(c.y)

\* C9: a spelling in a supported pattern that carries a year gives exactly
\* that calendar date; a supported spelling without a year that is a valid
\* day of the year of today gives that day in the year of today; every
\* other input gives absent.
C9_DateRecovered ==
    dt # Pending =>
        IF /\ s.k = "date"
           /\ s.yf # "none"
           /\ s.sep \in {"-", " "}
           /\ MatchesAbbr(s)
           /\ ValidDate(StatedYear(s), s.mon, s.d)
        THEN dt = [k |-> "D", ymd |-> <<StatedYear(s), s.mon, s.d>>]
        ELSE IF /\ s.k = "date"
                /\ s.yf = "none"
                /\ (s.sep \in {"-", " "} /\ MatchesAbbr(s)) \/ (s.sep = " " /\ MatchesFull(s))
                /\ ValidDate(today[1], s.mon, s.d)
        THEN dt = [k |-> "D", ymd |-> <<today[1], s.mon, s.d>>]
        ELSE dt = None

\* C10: the records normalize_df returns stand in non-increasing order of
\* parsed size, an absent size counting as 0, also when only some sizes are
\* absent.
C10_OrderedBySizeAbsentAsZero ==
    Normalized =>
        \A i, j \in DOMAIN df_std : i < j => SizeOf(df_std[i]) >= SizeOf(df_std[j])

=============================================================================
